---------------------------- MODULE Spec2Model ----------------------------
(***************************************************************************)
(* Model of the post-annotation / tag-unification pipeline                 *)
(* (data/preprocess.py: process_posts, extract_metadata, get_unified_tags) *)
(* and of the prompt builder (data/post_generator.py: get_prompt).         *)
(*                                                                         *)
(* JSON values are encoded as records of one shape so that any two values  *)
(* can be compared: a Python dict is a function from key strings to        *)
(* values, a list is a sequence of values.                                 *)
(***************************************************************************)
EXTENDS Integers, Sequences, FiniteSets, TLC

VARIABLES
    posts,          \* json.load(raw file): the sequence of raw posts
    idx,            \* position of the `for post in posts` loop (1-based)
    enriched_posts, \* the list process_posts builds
    unified_tags,   \* return value of get_unified_tags
    ridx,           \* position of the `for post in enriched_posts` loop
    file,           \* content of processed_file_path
    pc,             \* where process_posts is
    llm_calls,      \* log of chain.invoke calls, in order
    responses,      \* what the LLM answered to each annotation call
    unify_response, \* what the LLM answered to the unification call
    length, language, tag,  \* arguments of get_prompt
    examples,       \* few_shots.get_filtered_posts(length, language, tag)
    prompt,         \* the prompt string, as the sequence of pieces appended
    gi,             \* enumerate index i of the loop of get_prompt (0-based)
    gpc             \* where get_prompt is

pvars == <<posts, idx, enriched_posts, unified_tags, ridx, file, pc,
           llm_calls, responses, unify_response>>
gvars == <<length, language, tag, examples, prompt, gi, gpc>>
vars == <<pvars, gvars>>

----------------------------------------------------------------------------
(* Bounds *)

MaxPosts == 2

MaxExamples == 3

----------------------------------------------------------------------------
(* JSON values *)

VStr(s) == [kind |-> "str", str |-> s, num |-> 0, list |-> <<>>]

VNum(n) == [kind |-> "num", str |-> "", num |-> n, list |-> <<>>]

VList(l) == [kind |-> "list", str |-> "", num |-> 0, list |-> l]

EmptyDict == [k \in {} |-> VNum(0)]

\* What JsonOutputParser.parse can return: None (JSON null), a dict, or a
\* JSON value that is not a mapping (array, number, string).
None == [jk |-> "null", d |-> EmptyDict]

NonMapping == [jk |-> "array", d |-> EmptyDict]

Object(d) == [jk |-> "object", d |-> d]

\* The outcome of one chain.invoke + its text: the call raises, the text is
\* not JSON, or the text is JSON with the parsed value `val`.
ServiceError == [kind |-> "service_error", val |-> None]

NotJson == [kind |-> "not_json", val |-> None]

Json(v) == [kind |-> "json", val |-> v]

Range(s) == {s[i] : i \in 1..Len(s)}


----------------------------------------------------------------------------
(* Inputs: the raw file and the answers of the LLM service *)

Tags == {"Jobseekers", "Job Hunting", "Motivation"}

\* Raw posts: a text plus passthrough fields.
RawPosts ==
    { [text |-> VStr("a"), engagement |-> VNum(10)],
      [text |-> VStr("b"), language |-> VStr("Hindi")] }

\* JSON objects the LLM may answer to the metadata prompt.  The answer is
\* untrusted: it may lack keys, carry other keys, or hold values of other
\* types or outside the documented domains.
MetadataObjects ==
    { [line_count |-> VNum(3), language |-> VStr("English"),
       tags |-> VList(<<VStr("Motivation")>>)],
      [line_count |-> VNum(1), language |-> VStr("Hinglish"),
       tags |-> VList(<<VStr("Jobseekers"), VStr("Motivation")>>)],
      [line_count |-> VNum(2), language |-> VStr("English"),
       tags |-> VList(<<VStr("Jobseekers"), VStr("Job Hunting")>>)],
      [line_count |-> VNum(-1), language |-> VStr("French"),
       tags |-> VList(<<>>)],
      [line_count |-> VNum(4), language |-> VStr("English"),
       tags |-> VList(<<VStr("Motivation"), VStr("Jobseekers"),
                        VStr("Job Hunting")>>)],
      [line_count |-> VNum(2), language |-> VStr("English")],
      [line_count |-> VNum(2), language |-> VStr("English"),
       tags |-> VNum(7)],
      [line_count |-> VNum(2), language |-> VStr("English"),
       tags |-> VList(<<VStr("Motivation"), VNum(7)>>)],
      [line_count |-> VNum(5), language |-> VStr("English"),
       tags |-> VList(<<VStr("Motivation")>>), text |-> VStr("rewritten")] }

MetadataResponses ==
    {ServiceError, NotJson, Json(None), Json(NonMapping)}
        \cup {Json(Object(d)) : d \in MetadataObjects}

\* JSON objects the LLM may answer to the unification prompt.
TagMaps ==
    { [t \in Tags |-> IF t = "Motivation" THEN VStr("Motivation")
                                          ELSE VStr("Job Search")],
      [t \in Tags |-> VStr(t)],
      [t \in {"Jobseekers"} |-> VStr("Job Search")],
      [t \in {"Motivation"} |-> VList(<<VStr("Motivation")>>)],
      EmptyDict }

UnifyResponses ==
    {ServiceError, NotJson, Json(None), Json(NonMapping)}
        \cup {Json(Object(m)) : m \in TagMaps}

SeqsUpTo(S, n) == UNION {[1..k -> S] : k \in 0..n}

----------------------------------------------------------------------------
(* extract_metadata *)

\* try: response = chain.invoke(...); return parser.parse(response.content)
\* except Exception: return None
extract_metadata(resp) ==
    IF resp.kind = "json" THEN resp.val ELSE None

\* {**post, **metadata}: the keys of both, metadata's value on a shared key
post_with_metadata(post, metadata) ==
    [k \in DOMAIN post \cup DOMAIN metadata |->
        IF k \in DOMAIN metadata THEN metadata[k] ELSE post[k]]

\* a slip: enriched_posts.insert(0, post_with_metadata)
append_front(l, x) == <<x>> \o l

\* enriched_posts.append(post_with_metadata)
append(l, x) == Append(l, x)

----------------------------------------------------------------------------
(* get_unified_tags *)

\* unique_tags.update(post['tags']) raises: KeyError when a post has no
\* 'tags', TypeError when it is a number (not iterable) or holds an
\* unhashable element.  (A string under 'tags' would be iterated character
\* by character; MetadataObjects holds no such answer.)
update_raises(ps) ==
    \E i \in 1..Len(ps) :
        \/ "tags" \notin DOMAIN ps[i]
        \/ ps[i].tags.kind = "num"
        \/ \E t \in Range(ps[i].tags.list) : t.kind = "list"

unique_tags(ps) == UNION {Range(ps[i].tags.list) : i \in 1..Len(ps)}

\* ','.join(unique_tags) raises TypeError on an element that is not a str
join_raises(ts) == \E t \in ts : t.kind # "str"

\* a slip: the except branch returns None, as extract_metadata does
parse_unified_none(resp) ==
    IF resp.kind = "json" THEN resp.val ELSE None

\* try: ...; return parser.parse(response.content)
\* except Exception: ...; return {}
parse_unified(resp) ==
    IF resp.kind = "json" THEN resp.val ELSE Object(EmptyDict)

----------------------------------------------------------------------------
(* the tag rewrite of process_posts *)

\* a slip: unified_tags.get(tag), None for a tag that is no key
get_none(d, t) ==
    IF t.str \in DOMAIN d THEN d[t.str]
    ELSE [kind |-> "null", str |-> "", num |-> 0, list |-> <<>>]

\* unified_tags.get(tag, tag)
get(d, t) == IF t.str \in DOMAIN d THEN d[t.str] ELSE t

\* {unified_tags.get(tag, tag) for tag in current_tags}
new_tags(unified, current_tags) ==
    {get(unified, current_tags[i]) : i \in 1..Len(current_tags)}

\* list(new_tags): the elements of the set once each, in the iteration
\* order of the set, which the language does not fix
list(S) ==
    {l \in [1..Cardinality(S) -> S] :
        \A i, j \in 1..Cardinality(S) : i # j => l[i] # l[j]}

\* a slip: a list comprehension, [unified_tags.get(tag, tag) for tag in ...]
rewritten_tags_comprehension(unified, current_tags) ==
    {[i \in 1..Len(current_tags) |-> get(unified, current_tags[i])]}

\* new_tags = {...}; post['tags'] = list(new_tags): the lists the
\* assignment can store
rewritten_tags(unified, current_tags) ==
    list(new_tags(unified, current_tags))

\* unified_tags.get raises AttributeError when unified_tags is None or a
\* list and the comprehension evaluates it (the post has a tag); building
\* the set raises TypeError on an unhashable canonical value
rewrite_raises(unified, current_tags) ==
    /\ current_tags # <<>>
    /\ \/ unified.jk # "object"
       \/ \E v \in new_tags(unified.d, current_tags) : v.kind = "list"

\* json.dump(enriched_posts, outfile, ...): the text written, as the data it
\* encodes and the formatting options
dumped(data, indent, ensure_ascii) ==
    [state |-> "written", data |-> data, indent |-> indent,
     ensure_ascii |-> ensure_ascii]

\* open(processed_file_path, "w") truncates the file
truncated == [state |-> "truncated", data |-> <<>>, indent |-> 0,
              ensure_ascii |-> TRUE]

previous == [state |-> "previous", data |-> <<>>, indent |-> 0,
             ensure_ascii |-> TRUE]

----------------------------------------------------------------------------
(* process_posts *)

call(op, text, tags) == [op |-> op, text |-> text, tags |-> tags]

InitPipeline ==
    /\ idx = 1
    /\ enriched_posts = <<>>
    /\ unified_tags = None
    /\ ridx = 1
    /\ file = previous
    /\ pc = "annotate"
    /\ llm_calls = <<>>
    /\ responses = <<>>
    /\ unify_response = NotJson

\* one iteration of `for post in posts`
Annotate ==
    /\ pc = "annotate"
    /\ idx <= Len(posts)
    /\ \E resp \in MetadataResponses :
        LET post == posts[idx]
            metadata == extract_metadata(resp)
        IN /\ llm_calls' = Append(llm_calls,
                                  call("extract_metadata", post.text, {}))
           /\ responses' = Append(responses, resp)
           /\ IF metadata = None
              THEN /\ idx' = idx + 1
                   /\ UNCHANGED <<enriched_posts, pc>>
              ELSE IF metadata.jk # "object"
              THEN /\ pc' = "crashed"     \* TypeError: not a mapping
                   /\ UNCHANGED <<enriched_posts, idx>>
              ELSE /\ enriched_posts' =
                          append(enriched_posts,
                                 post_with_metadata(post, metadata.d))
                   /\ idx' = idx + 1
                   /\ UNCHANGED pc
    /\ UNCHANGED <<posts, unified_tags, ridx, file, unify_response>>

\* with open(processed_file_path, "w") as outfile:
OpenFirst ==
    /\ pc = "annotate"
    /\ idx > Len(posts)
    /\ file' = truncated
    /\ pc' = "dump1"
    /\ UNCHANGED <<posts, idx, enriched_posts, unified_tags, ridx,
                   llm_calls, responses, unify_response>>

\* json.dump(enriched_posts, outfile, ensure_ascii=False), file closed
DumpFirst ==
    /\ pc = "dump1"
    /\ file' = dumped(enriched_posts, 0, FALSE)
    /\ pc' = "unify"
    /\ UNCHANGED <<posts, idx, enriched_posts, unified_tags, ridx,
                   llm_calls, responses, unify_response>>

\* unified_tags = get_unified_tags(enriched_posts)
GetUnifiedTags ==
    /\ pc = "unify"
    /\ IF update_raises(enriched_posts)
       THEN /\ pc' = "crashed"
            /\ UNCHANGED <<unified_tags, ridx, llm_calls, unify_response>>
       ELSE IF join_raises(unique_tags(enriched_posts))
       THEN /\ pc' = "crashed"
            /\ UNCHANGED <<unified_tags, ridx, llm_calls, unify_response>>
       ELSE \E resp \in UnifyResponses :
            /\ llm_calls' = Append(llm_calls,
                                   call("get_unified_tags", VStr(""),
                                        unique_tags(enriched_posts)))
            /\ unify_response' = resp
            /\ unified_tags' = parse_unified(resp)
            /\ ridx' = 1
            /\ pc' = "rewrite"
    /\ UNCHANGED <<posts, idx, enriched_posts, file, responses>>

\* one iteration of `for post in enriched_posts`
Rewrite ==
    /\ pc = "rewrite"
    /\ ridx <= Len(enriched_posts)
    /\ LET post == enriched_posts[ridx]
           current_tags == post.tags.list
       IN IF rewrite_raises(unified_tags, current_tags)
          THEN /\ pc' = "crashed"
               /\ UNCHANGED <<enriched_posts, ridx>>
          ELSE \E l \in rewritten_tags(unified_tags.d, current_tags) :
               /\ enriched_posts' =
                    [enriched_posts EXCEPT
                        ![ridx] = [post EXCEPT !.tags = VList(l)]]
               /\ ridx' = ridx + 1
               /\ UNCHANGED pc
    /\ UNCHANGED <<posts, idx, unified_tags, file, llm_calls, responses,
                   unify_response>>

\* with open(processed_file_path, "w") as outfile:
OpenSecond ==
    /\ pc = "rewrite"
    /\ ridx > Len(enriched_posts)
    /\ file' = truncated
    /\ pc' = "dump2"
    /\ UNCHANGED <<posts, idx, enriched_posts, unified_tags, ridx,
                   llm_calls, responses, unify_response>>

\* json.dump(enriched_posts, outfile, indent=4), file closed
DumpSecond ==
    /\ pc = "dump2"
    /\ file' = dumped(enriched_posts, 4, TRUE)
    /\ pc' = "done"
    /\ UNCHANGED <<posts, idx, enriched_posts, unified_tags, ridx,
                   llm_calls, responses, unify_response>>

----------------------------------------------------------------------------
(* get_prompt *)

Lengths == {"Short", "Medium", "Long"}

Languages == {"English", "Hinglish"}

Topics == {"Job Search", "Motivation"}

ExamplePosts == {[text |-> VStr("x")], [text |-> VStr("y")]}

piece(kind, n, text) ==
    [piece |-> kind, n |-> n, text |-> text,
     topic |-> tag, length |-> length, language |-> language]

InitPrompt ==
    /\ examples = <<>>
    /\ prompt = <<>>
    /\ gi = 0
    /\ gpc = "start"

\* prompt = f"..." (the text names tag, length and language; length_str is
\* computed and not used); examples = few_shots.get_filtered_posts(...),
\* an external store: any list of posts
BuildPrompt ==
    /\ gpc = "start"
    /\ prompt' = <<piece("base", 0, VStr(""))>>
    /\ examples' \in SeqsUpTo(ExamplePosts, MaxExamples)
    /\ gpc' = "check"
    /\ UNCHANGED <<length, language, tag, gi>>

\* if len(examples) > 0: prompt += "4)Use the writing style ..."
AddHeader ==
    /\ gpc = "check"
    /\ Len(examples) > 0
    /\ prompt' = Append(prompt, piece("header", 0, VStr("")))
    /\ gi' = 0
    /\ gpc' = "loop"
    /\ UNCHANGED <<length, language, tag, examples>>

NoExamples ==
    /\ gpc = "check"
    /\ ~(Len(examples) > 0)
    /\ gpc' = "return"
    /\ UNCHANGED <<length, language, tag, examples, prompt, gi>>

\* a slip: if i == 2: break
breaks_late(i) == i = 2

\* if i == 1: break
breaks(i) == i = 1

\* one iteration of `for i, post in enumerate(examples)`
AddExample ==
    /\ gpc = "loop"
    /\ gi < Len(examples)
    /\ LET post == examples[gi + 1]
           post_text == post.text
       IN prompt' = Append(prompt, piece("example", gi + 1, post_text))
    /\ IF breaks(gi)
       THEN gpc' = "return" /\ UNCHANGED gi
       ELSE gi' = gi + 1 /\ UNCHANGED gpc
    /\ UNCHANGED <<length, language, tag, examples>>

\* the loop runs out of examples
EndExamples ==
    /\ gpc = "loop"
    /\ gi >= Len(examples)
    /\ gpc' = "return"
    /\ UNCHANGED <<length, language, tag, examples, prompt, gi>>

----------------------------------------------------------------------------
(* Specifications *)

Init ==
    /\ posts \in SeqsUpTo(RawPosts, MaxPosts)
    /\ InitPipeline
    /\ length = "Medium" /\ language = "English" /\ tag = "Job Search"
    /\ InitPrompt

Next ==
    \/ Annotate /\ UNCHANGED gvars
    \/ OpenFirst /\ UNCHANGED gvars
    \/ DumpFirst /\ UNCHANGED gvars
    \/ GetUnifiedTags /\ UNCHANGED gvars
    \/ Rewrite /\ UNCHANGED gvars
    \/ OpenSecond /\ UNCHANGED gvars
    \/ DumpSecond /\ UNCHANGED gvars

Spec == Init /\ [][Next]_vars

InitGen ==
    /\ posts = <<>>
    /\ InitPipeline
    /\ length \in Lengths /\ language \in Languages /\ tag \in Topics
    /\ InitPrompt

NextGen ==
    \/ BuildPrompt /\ UNCHANGED pvars
    \/ AddHeader /\ UNCHANGED pvars
    \/ NoExamples /\ UNCHANGED pvars
    \/ AddExample /\ UNCHANGED pvars
    \/ EndExamples /\ UNCHANGED pvars

SpecPrompt == InitGen /\ [][NextGen]_vars

----------------------------------------------------------------------------
(* Vocabulary of the properties *)

\* The annotation calls whose answer was a JSON object (extraction
\* succeeded); every other answer is an extraction failure.
Succeeded == {i \in 1..Len(responses) :
                 responses[i].kind = "json" /\ responses[i].val.jk = "object"}

Failed == (1..Len(responses)) \ Succeeded

\* The input position of the k-th retained post.
OrigIndex(k) == CHOOSE i \in Succeeded :
                    Cardinality({j \in Succeeded : j <= i}) = k

\* The metadata object the LLM returned for the k-th retained post.
OrigMetadata(k) == responses[OrigIndex(k)].val.d

OrigTags(k) == OrigMetadata(k).tags.list

NoDuplicates(l) == \A i, j \in 1..Len(l) : i # j => l[i] # l[j]

\* get_unified_tags has returned
UnifyReturned == pc \in {"rewrite", "dump2", "done"}
                    \/ (pc = "crashed" /\ llm_calls # <<>>
                        /\ llm_calls[Len(llm_calls)].op = "get_unified_tags")

\* `coll` holds, in input order, one entry per succeeded post and nothing
\* else; an entry is the raw post with the metadata object laid over it
\* (the tags aside, which the rewrite replaces)
IsSubsequenceOfInput(coll) ==
    /\ Len(coll) = Cardinality(Succeeded)
    /\ Len(coll) = Len(responses) - Cardinality(Failed)
    /\ \A k \in 1..Len(coll) :
        LET i == OrigIndex(k)
            meta == responses[i].val.d
        IN /\ DOMAIN coll[k] = DOMAIN posts[i] \cup DOMAIN meta
           /\ \A key \in DOMAIN coll[k] \ {"tags"} :
                coll[k][key] = IF key \in DOMAIN meta THEN meta[key]
                                                      ELSE posts[i][key]

\* C1: the collection process_posts builds, and the one it persists, is an
\* order-preserving subsequence of the input holding exactly the posts whose
\* metadata extraction succeeded, each once; a failed post leaves no entry,
\* and the persisted length is the input length minus the number of failures.
C1_Subsequence ==
    /\ IsSubsequenceOfInput(enriched_posts)
    /\ file.state = "written" =>
          /\ IsSubsequenceOfInput(file.data)
          /\ Len(file.data) = Len(posts) - Cardinality(Failed)

C1_Witness ==
    /\ pc = "done"
    /\ Len(posts) = 2
    /\ responses[1] = NotJson
    /\ 2 \in Succeeded
    /\ Len(file.data) = 1
    /\ file.data[1].text = posts[2].text

\* C2: no LLM outcome aborts the run: process_posts never ends in an
\* exception.
C2_NoAbort == pc # "crashed"

\* C3: a rewritten post's tag set is the image of its original tags under
\* the TagMap, a tag that is no key of the TagMap kept as it is; the new tag
\* list has no duplicates and is no longer than the original one.
C3_Rewrite ==
    \A k \in 1..(ridx - 1) :
        LET m == unified_tags.d
            final == enriched_posts[k].tags.list
        IN /\ Range(final) =
                {IF t.str \in DOMAIN m THEN m[t.str] ELSE t :
                    t \in Range(OrigTags(k))}
           /\ NoDuplicates(final)
           /\ Len(final) <= Len(OrigTags(k))

C3_Witness ==
    /\ pc = "done"
    /\ \E k \in 1..Len(enriched_posts) :
        /\ OrigTags(k) = <<VStr("Jobseekers"), VStr("Motivation")>>
        /\ unified_tags.jk = "object"
        /\ DOMAIN unified_tags.d = Tags
        /\ unified_tags.d["Jobseekers"] = VStr("Job Search")
        /\ Range(enriched_posts[k].tags.list)
              = {VStr("Job Search"), VStr("Motivation")}

IsIdentityMap(u) ==
    /\ u.jk = "object"
    /\ \A key \in DOMAIN u.d : u.d[key] = VStr(key)

\* C4: when the unification call fails or answers text that is not JSON,
\* get_unified_tags returns the empty mapping; under the empty mapping, and
\* under any identity mapping, every rewritten post keeps its tag set.
C4_FailureIsNoOp ==
    /\ (UnifyReturned /\ unify_response.kind \in {"service_error", "not_json"})
          => unified_tags = Object(EmptyDict)
    /\ (UnifyReturned /\ IsIdentityMap(unified_tags)) =>
          \A k \in 1..(ridx - 1) :
              Range(enriched_posts[k].tags.list) = Range(OrigTags(k))

C4_Witness ==
    /\ pc = "done"
    /\ unify_response = ServiceError
    /\ Len(enriched_posts) = 2
    /\ Range(enriched_posts[1].tags.list)
          = {VStr("Jobseekers"), VStr("Job Hunting")}

\* C5: a retained post carries every field of its raw post with the original
\* value, plus exactly the fields of the metadata object.
C5_RawFieldsKept ==
    \A k \in 1..Len(enriched_posts) :
        LET i == OrigIndex(k)
        IN /\ DOMAIN enriched_posts[k]
                = DOMAIN posts[i] \cup DOMAIN OrigMetadata(k)
           /\ \A key \in DOMAIN posts[i] :
                enriched_posts[k][key] = posts[i][key]


\* The distinct tags the Annotator produced across the retained posts.
RawTags == UNION {Range(OrigTags(k)) : k \in 1..Len(enriched_posts)}

FinalTags == UNION {Range(enriched_posts[k].tags.list) :
                        k \in 1..Len(enriched_posts)}

\* C6 (as claimed): the TagMap used for the rewrite covers every distinct
\* raw tag: each one is a key of it.
C6_KeysCoverRawTags ==
    (UnifyReturned /\ unified_tags.jk = "object") =>
        {t.str : t \in RawTags} \subseteq DOMAIN unified_tags.d

\* C6 (amended): the TagMap need not cover the raw tags; the rewrite
\* completes it with the identity.  Once the rewrite is over, every raw tag
\* of a post is represented in that post by its one canonical tag (the
\* TagMap value when the tag is a key, the tag itself otherwise), and the
\* final vocabulary is the image of the raw vocabulary under that map; when
\* the unification call failed the TagMap has no key at all.
C6_IdentityCompleted ==
    pc \in {"dump2", "done"} =>
        LET m == unified_tags.d
            canonical(t) == IF t.str \in DOMAIN m THEN m[t.str] ELSE t
        IN /\ \A k \in 1..Len(enriched_posts) :
                \A t \in Range(OrigTags(k)) :
                    canonical(t) \in Range(enriched_posts[k].tags.list)
           /\ FinalTags = {canonical(t) : t \in RawTags}
           /\ unify_response.kind # "json" => DOMAIN m = {}

C6_Witness ==
    /\ pc = "done"
    /\ unified_tags.jk = "object"
    /\ DOMAIN unified_tags.d = {"Jobseekers"}
    /\ RawTags = {VStr("Jobseekers"), VStr("Motivation")}
    /\ FinalTags = {VStr("Job Search"), VStr("Motivation")}

\* C7: every retained post carries valid metadata: line_count an integer
\* >= 0, language English or Hinglish, tags a list of 1 or 2 entries.
C7_ValidMetadata ==
    \A k \in 1..Len(enriched_posts) :
        LET p == enriched_posts[k]
        IN /\ {"line_count", "language", "tags"} \subseteq DOMAIN p
           /\ p.line_count.kind = "num"
           /\ p.line_count.num >= 0
           /\ p.language \in {VStr("English"), VStr("Hinglish")}
           /\ p.tags.kind = "list"
           /\ Len(p.tags.list) \in 1..2

\* C8: a run over n posts makes exactly n annotation calls, one per post in
\* input order, and then exactly one unification call.
C8_CallsPerRun ==
    pc \in {"done", "crashed"} =>
        /\ Len(llm_calls) = Len(posts) + 1
        /\ \A i \in 1..Len(posts) :
              /\ llm_calls[i].op = "extract_metadata"
              /\ llm_calls[i].text = posts[i].text
        /\ llm_calls[Len(posts) + 1].op = "get_unified_tags"

\* C9: the file is replaced atomically, twice: it never holds an empty or
\* partial content; after the first pass it holds the annotated collection
\* and at the end of the run the collection with rewritten tags.
C9_AtomicPasses ==
    /\ file.state \in {"previous", "written"}
    /\ pc = "unify" => file = dumped(enriched_posts, 0, FALSE)
    /\ pc = "done" => file.data = enriched_posts

Min(a, b) == IF a < b THEN a ELSE b

\* C10: the prompt get_prompt returns holds the base text alone when there
\* is no example, and otherwise the base text, the header once, and the
\* first min(2, k) of the k examples in list order, numbered from 1; at no
\* point does it hold more than two examples.
C10_AtMostTwoExamples ==
    /\ Cardinality({i \in 1..Len(prompt) : prompt[i].piece = "example"}) <= 2
    /\ gpc = "return" =>
        /\ prompt[1].piece = "base"
        /\ IF Len(examples) = 0
           THEN Len(prompt) = 1
           ELSE /\ Len(prompt) = 2 + Min(2, Len(examples))
                /\ prompt[2].piece = "header"
                /\ \A k \in 1..Min(2, Len(examples)) :
                      /\ prompt[2 + k].piece = "example"
                      /\ prompt[2 + k].n = k
                      /\ prompt[2 + k].text = examples[k].text

C10_Witness ==
    /\ gpc = "return"
    /\ Len(examples) = 3
    /\ Len(prompt) = 4
    /\ prompt[4].n = 2
    /\ prompt[4].text = examples[2].text

============================================================================
